---- MODULE Spec2Model ----
(***************************************************************************)
(* Maya: the monitoring-and-dispatch engine.                               *)
(*   alerts.py   AlertSystem   cooldown-gated alerts, JSONL alert log      *)
(*   sensors.py  SensorHub     probing and per-sensor polling              *)
(*   voice.py    VoiceAssistant wake-word gated command dispatch           *)
(* Text is modelled as sequences of characters; a character is a string.   *)
(* Each subsystem has its own specification over its own variables.        *)
(***************************************************************************)
EXTENDS Integers, Sequences, FiniteSets, TLC

\* ------------------------------------------------------------------ bounds
MaxTime == 3          \* the clock runs over 0..MaxTime
MaxCooldown == 2      \* configured cooldown windows 1..MaxCooldown
MaxCalls == 2         \* trigger calls made in one behaviour
MaxCount == 2         \* counts passed to get_recent_alerts: 0..MaxCount
MaxLines == 2         \* lines of a log file left by earlier runs
MaxErrors == 7        \* a sensor's error counter stops growing here
MaxSubscribers == 2   \* callbacks registered with on_update
MaxHeard == 2         \* utterances and injected texts in one behaviour
MaxThreshold == 2     \* configured inactivity thresholds 1..MaxThreshold

\* get_recent_alerts(self, count=10)
DefaultCount == 10

\* ------------------------------------------------------------- characters
NL == "<nl>"          \* line feed
DQ == "<dq>"          \* double quote
BS == "<bs>"          \* backslash
SP == " "
Whitespace == {SP, NL}

\* ------------------------------------------------------------ text helpers
\* Python: k in s, for strings
IsSubstr(k, s) ==
  \E i \in 0..(Len(s) - Len(k)) : SubSeq(s, i + 1, i + Len(k)) = k

\* Python: s.find(k), 1-based; 0 when k does not occur
Find(k, s) ==
  IF IsSubstr(k, s)
  THEN (CHOOSE i \in 0..(Len(s) - Len(k)) :
          /\ SubSeq(s, i + 1, i + Len(k)) = k
          /\ \A j \in 0..(i - 1) : SubSeq(s, j + 1, j + Len(k)) # k) + 1
  ELSE 0

\* Python: s.strip()
Strip(s) ==
  LET keep == {i \in 1..Len(s) : s[i] \notin Whitespace}
  IN IF keep = {} THEN <<>>
     ELSE SubSeq(s, CHOOSE i \in keep : \A j \in keep : i <= j,
                    CHOOSE i \in keep : \A j \in keep : i >= j)

\* Python: seq[start:] for a possibly negative start
PySliceFrom(seq, start) ==
  LET n == Len(seq)
      lo == IF start < 0 THEN (IF start + n < 0 THEN 0 ELSE start + n)
            ELSE (IF start > n THEN n ELSE start)
  IN SubSeq(seq, lo + 1, n)

RECURSIVE Concat(_)
Concat(ss) == IF ss = <<>> THEN <<>> ELSE Head(ss) \o Concat(Tail(ss))

\* Python: s.strip() for a string
StrStrip(s) ==
  LET keep == {i \in 1..Len(s) : SubSeq(s, i, i) # " "}
  IN IF keep = {} THEN ""
     ELSE SubSeq(s, CHOOSE i \in keep : \A j \in keep : i <= j,
                    CHOOSE i \in keep : \A j \in keep : i >= j)

LowerChar(c) ==
  CASE c = "A" -> "a" [] c = "B" -> "b" [] c = "C" -> "c" [] c = "D" -> "d"
    [] c = "E" -> "e" [] c = "F" -> "f" [] c = "G" -> "g" [] c = "H" -> "h"
    [] c = "I" -> "i" [] c = "J" -> "j" [] c = "K" -> "k" [] c = "L" -> "l"
    [] c = "M" -> "m" [] c = "N" -> "n" [] c = "O" -> "o" [] c = "P" -> "p"
    [] c = "Q" -> "q" [] c = "R" -> "r" [] c = "S" -> "s" [] c = "T" -> "t"
    [] c = "U" -> "u" [] c = "V" -> "v" [] c = "W" -> "w" [] c = "X" -> "x"
    [] c = "Y" -> "y" [] c = "Z" -> "z" [] OTHER -> c

\* Python: s.lower()
RECURSIVE Lower(_)
Lower(s) ==
  IF Len(s) = 0 THEN ""
  ELSE LowerChar(SubSeq(s, 1, 1)) \o Lower(SubSeq(s, 2, Len(s)))

\* ================================================================ alerts.py
Severities == {"info", "warning", "critical"}
\* the alerts callers raise: check_inactivity, check_medication_reminders, and
\* a fall alert as an example of a critical one
AlertKinds == {<<"inactivity", "warning">>, <<"medication", "info">>,
               <<"fall", "critical">>}
AlertTypes == {k[1] : k \in AlertKinds}
\* messages: plain text, and text holding the characters JSON has to escape
Messages == {<<"m">>, <<"a", NL, DQ, BS, "n">>}

VARIABLES
  now,          \* datetime.now(), in ticks
  cooldown,     \* config["fall_cooldown_seconds"]
  cooldowns,    \* self._cooldowns: alert type -> time of the last accepted trigger
  alertLog,     \* contents of data_dir/alerts.jsonl, a sequence of characters
  onVisual,     \* self.on_alert_visual is set
  onVoice,      \* self.on_alert_voice is set
  hist,         \* every trigger call so far: arguments, time, outcome, position
  recent,       \* the value returned by the last get_recent_alerts call
  lastMotion,   \* self.last_motion
  threshold,    \* config["inactivity_alert_hours"], in ticks
  inact,        \* check_inactivity: where it is, the trigger call it awaits
  rem           \* check_medication_reminders: the same, and its place in the loop

\* the two monitors Maya.start runs as tasks
monVars == <<lastMotion, threshold, inact, rem>>

alertVars == <<now, cooldown, cooldowns, alertLog, onVisual, onVoice, hist, recent,
               monVars>>

\* the sensors registered with the hub
SensorNames == {"MAX30102", "BME280"}

\* poll_sensor: if sensor["error_count"] > 5
ErrorThreshold == 5

VARIABLES
  bus,        \* self._bus: "none", "open" or "closed"
  order,      \* the keys of self.sensors, in insertion order
  sensors,    \* self.sensors: name -> status, value, error_count, read_fn, i2c_addr
  phase,      \* start_all: "setup" before it, "starting" in it, "started" after
  startQueue, \* start_all: the names its first loop has still to probe
  tasks,      \* the polling task of each sensor: "none", or where it is suspended
  hubDown,    \* cleanup has been called
  lastProbe,  \* the last probe call that returned: the sensor and the value
  callbacks,  \* len(self.callbacks): the subscribers are numbered 1..callbacks
  cbAt,       \* the subscriber a polling task is awaiting, 0 when none
  delivered,  \* per sensor, the last update its polling task published
  orphans,    \* polling tasks of an earlier start_all, dropped from self._tasks
  scanned     \* the last scan_i2c call: whether there was one, and what it found

\* what the subscribers are told, and who was told
subVars == <<callbacks, cbAt, delivered>>

hubVars == <<bus, order, sensors, phase, startQueue, tasks, hubDown, lastProbe,
             subVars, orphans, scanned>>

VARIABLES
  listening,   \* self.listening: the session is in ActiveListening
  speaking,    \* self.speaking
  ttsReady,    \* self._tts_ready
  handlers,    \* self.command_handlers, in insertion order: <<keyword, handler>>
  voicePc,     \* where the running dispatch is suspended: "listen" when none is
  closing,     \* the running dispatch came from the window branch of _process_speech
  heard,       \* every utterance and injected text so far, and what became of it
  window,      \* commands dispatched since the session last changed mode
  buttonEver,  \* the button has been pressed
  sttReady,    \* self._stt_ready
  loopPc,      \* listen_continuous: "running", or "ended" once it has returned
  slept,       \* the loop of an assistant without recogniser has slept once
  alertPc,     \* a speak call made through on_alert_voice: "idle" or "speaking"
  observed     \* the mode last passed to on_listening_change, "idle" before any

\* listen_continuous as a task, and the speak calls that do not come from it
loopVars == <<sttReady, loopPc, slept, alertPc>>

voiceVars == <<listening, speaking, ttsReady, handlers, voicePc, closing, heard,
               window, buttonEver, loopVars, observed>>

vars == <<alertVars, monVars, hubVars, voiceVars>>

\* a json.dumps that escaped nothing
JsonEscapeCharRaw(c) == <<c>>

\* json.dumps of a str: quotes, with ", \ and line feed escaped
JsonEscapeChar(c) ==
  IF c = DQ THEN <<BS, DQ>>
  ELSE IF c = BS THEN <<BS, BS>>
  ELSE IF c = NL THEN <<BS, "n">>
  ELSE <<c>>

JsonStr(s) == <<DQ>> \o Concat([i \in 1..Len(s) |-> JsonEscapeChar(s[i])]) \o <<DQ>>

\* datetime.isoformat(): one token per instant
IsoFormat(t) == <<ToString(t)>>

\* json.dumps(entry) for the entry _log_alert builds
JsonDumps(entry) ==
  <<"{">> \o JsonStr(<<"timestamp">>) \o <<":", SP>> \o JsonStr(entry.timestamp)
  \o <<",", SP>> \o JsonStr(<<"type">>) \o <<":", SP>> \o JsonStr(entry.type)
  \o <<",", SP>> \o JsonStr(<<"message">>) \o <<":", SP>> \o JsonStr(entry.message)
  \o <<",", SP>> \o JsonStr(<<"severity">>) \o <<":", SP>> \o JsonStr(entry.severity)
  \o <<"}">>

\* a _log_alert that writes nothing
LogAlertDropped(file, alert_type, message, severity, t) == file

\* _log_alert: the file after appending one line
LogAlert(file, alert_type, message, severity, t) ==
  file \o JsonDumps([timestamp |-> IsoFormat(t), type |-> <<alert_type>>,
                     message |-> message, severity |-> <<severity>>])
       \o <<NL>>

\* ------------------------------------------------ reading the log back
JsonFail == [ok |-> FALSE, val |-> <<>>, next |-> 0]

RECURSIVE SkipWs(_, _)
SkipWs(l, i) ==
  IF i <= Len(l) /\ l[i] \in Whitespace THEN SkipWs(l, i + 1) ELSE i

\* the body of a JSON string, from the character after its opening quote
RECURSIVE ScanStr(_, _, _)
ScanStr(l, i, acc) ==
  IF i > Len(l) THEN JsonFail
  ELSE IF l[i] = DQ THEN [ok |-> TRUE, val |-> acc, next |-> i + 1]
  ELSE IF l[i] = BS THEN
    IF i + 1 > Len(l) THEN JsonFail
    ELSE IF l[i + 1] = "n" THEN ScanStr(l, i + 2, Append(acc, NL))
    ELSE IF l[i + 1] \in {DQ, BS} THEN ScanStr(l, i + 2, Append(acc, l[i + 1]))
    ELSE JsonFail
  ELSE IF l[i] = NL THEN JsonFail
  ELSE ScanStr(l, i + 1, Append(acc, l[i]))

ParseStr(l, i) ==
  IF i <= Len(l) /\ l[i] = DQ THEN ScanStr(l, i + 1, <<>>) ELSE JsonFail

\* the members of a JSON object whose values are strings, from the first key
RECURSIVE ParseMembers(_, _, _)
ParseMembers(l, i, acc) ==
  LET k == ParseStr(l, SkipWs(l, i))
      c == IF k.ok THEN SkipWs(l, k.next) ELSE 0
      v == IF k.ok /\ c <= Len(l) /\ l[c] = ":"
           THEN ParseStr(l, SkipWs(l, c + 1)) ELSE JsonFail
      e == IF v.ok THEN SkipWs(l, v.next) ELSE 0
  IN IF ~v.ok \/ e > Len(l) THEN JsonFail
     ELSE IF l[e] = "," THEN ParseMembers(l, e + 1, Append(acc, <<k.val, v.val>>))
     ELSE IF l[e] = "}" THEN [ok |-> TRUE, val |-> Append(acc, <<k.val, v.val>>),
                               next |-> e + 1]
     ELSE JsonFail

\* one JSON value: an object of string members, or a string
ParseValue(l, i) ==
  IF i > Len(l) THEN JsonFail
  ELSE IF l[i] = DQ THEN ParseStr(l, i)
  ELSE IF l[i] = "{" THEN
    (IF SkipWs(l, i + 1) <= Len(l) /\ l[SkipWs(l, i + 1)] = "}"
     THEN [ok |-> TRUE, val |-> <<>>, next |-> SkipWs(l, i + 1) + 1]
     ELSE ParseMembers(l, i + 1, <<>>))
  ELSE JsonFail

\* a json.loads that stops after the first value, whatever follows it
JsonLoadsFirstValue(text) == ParseValue(text, SkipWs(text, 1))

\* json.loads(text): fails (JSONDecodeError) on anything but one value
JsonLoads(text) ==
  LET r == ParseValue(text, SkipWs(text, 1))
  IN IF r.ok /\ SkipWs(text, r.next) > Len(text) THEN r ELSE JsonFail

\* for line in f: the lines of the file, each without its line feed
RECURSIVE FileLines(_)
FileLines(file) ==
  LET nls == {i \in 1..Len(file) : file[i] = NL}
      n == CHOOSE i \in nls : \A j \in nls : i <= j
  IN IF file = <<>> THEN <<>>
     ELSE IF nls = {} THEN <<file>>
     ELSE <<SubSeq(file, 1, n - 1)>> \o FileLines(SubSeq(file, n + 1, Len(file)))

\* the loop of get_recent_alerts: the lines json.loads accepts, in order
RECURSIVE LoadAll(_)
LoadAll(lines) ==
  IF lines = <<>> THEN <<>>
  ELSE LET r == JsonLoads(Strip(Head(lines)))
       IN (IF r.ok THEN <<r.val>> ELSE <<>>) \o LoadAll(Tail(lines))

\* get_recent_alerts(count): alerts[-count:]
GetRecentAlerts(file, count) == PySliceFrom(LoadAll(FileLines(file)), 0 - count)

\* the dict json.loads gives back for a line _log_alert wrote
Entry(alert_type, message, severity, t) ==
  << <<(<<"timestamp">>), IsoFormat(t)>>, <<(<<"type">>), <<alert_type>> >>,
     <<(<<"message">>), message>>, <<(<<"severity">>), <<severity>> >> >>

\* ------------------------------------------------------------ AlertSystem
NoRead == [count |-> 0 - 1, result |-> <<>>]

NoProbe == [name |-> "", ret |-> FALSE]

NoUpdate == [status |-> "", value |-> "", seen |-> {}, raised |-> {}, reset |-> 0]

NoScan == [done |-> FALSE, found |-> {}]

\* __init__: no sensor, no callback, no task
HubConstructed ==
  /\ order = <<>>
  /\ sensors = [n \in {} |-> 0]
  /\ phase = "setup"
  /\ startQueue = <<>>
  /\ tasks = [n \in SensorNames |-> "none"]
  /\ hubDown = FALSE
  /\ lastProbe = NoProbe
  /\ callbacks = 0
  /\ cbAt = [n \in SensorNames |-> 0]
  /\ delivered = [n \in SensorNames |-> NoUpdate]
  /\ orphans = [n \in SensorNames |-> "none"]
  /\ scanned = NoScan

\* a SensorHub just constructed, with no bus, on which nothing is called
HubUnused ==
  /\ bus = "none"
  /\ HubConstructed

\* _register_default_commands: the built-in command table
DefaultHandlers ==
  << <<"time", "_cmd_time">>, <<"what time", "_cmd_time">>,
     <<"date", "_cmd_date">>, <<"what day", "_cmd_date">>,
     <<"today", "_cmd_date">>, <<"hello", "_cmd_hello">>,
     <<"hi", "_cmd_hello">>, <<"how are you", "_cmd_how_are_you">>,
     <<"help", "_cmd_help">>, <<"what can you do", "_cmd_help">>,
     <<"thank", "_cmd_thanks">>, <<"good morning", "_cmd_greeting">>,
     <<"good afternoon", "_cmd_greeting">>, <<"good evening", "_cmd_greeting">>,
     <<"good night", "_cmd_goodnight">>, <<"weather", "_cmd_weather">>,
     <<"temperature", "_cmd_temperature">>, <<"how am i", "_cmd_health_check">>,
     <<"health", "_cmd_health_check">>, <<"emergency", "_cmd_emergency">>,
     <<"stop", "_cmd_stop">>, <<"quiet", "_cmd_stop">> >>

\* a VoiceAssistant just constructed, on which nothing is called
VoiceUnused ==
  /\ listening = FALSE
  /\ speaking = FALSE
  /\ ttsReady = FALSE
  /\ handlers = DefaultHandlers
  /\ voicePc = "listen"
  /\ closing = FALSE
  /\ heard = <<>>
  /\ window = 0
  /\ buttonEver = FALSE
  /\ sttReady = FALSE
  /\ loopPc = "running"
  /\ slept = FALSE
  /\ alertPc = "idle"
  /\ observed = "idle"

\* check_inactivity before its first turn
InactStart == [pc |-> "check", call |-> 0, at |-> -1, fired |-> FALSE]

\* check_medication_reminders before its first turn
RemStart == [pc |-> "check", idx |-> 1, slot |-> -1, call |-> 0]

\* an AlertSystem whose monitors are not run
MonitorsUnused ==
  /\ lastMotion = 0
  /\ threshold = MaxThreshold
  /\ inact = InactStart
  /\ rem = RemStart

\* an AlertSystem just constructed, on which nothing is called
AlertsUnused ==
  /\ now = 0
  /\ cooldown = MaxCooldown
  /\ cooldowns = [k \in {} |-> 0]
  /\ alertLog = <<>>
  /\ onVisual = FALSE
  /\ onVoice = FALSE
  /\ hist = <<>>
  /\ recent = NoRead
  /\ MonitorsUnused

\* __init__, and the sinks as Maya.start wires them (NO_DISPLAY, NO_VOICE)
InitAlerts ==
  /\ now = 0
  /\ cooldown \in 1..MaxCooldown
  /\ cooldowns = [k \in {} |-> 0]
  /\ alertLog = <<>>
  /\ onVisual \in BOOLEAN
  /\ onVoice \in BOOLEAN
  /\ hist = <<>>
  /\ recent = NoRead
  /\ MonitorsUnused
  /\ HubUnused
  /\ VoiceUnused

\* one cooldown entry shared by every alert type
CooldownKeyGlobal(alert_type) == "any"

\* the key of self._cooldowns a trigger of alert_type reads and writes
CooldownKey(alert_type) == alert_type

\* the cooldown check with elapsed <= cooldown
IsSuppressedInclusive(alert_type, t) ==
  /\ alert_type \in DOMAIN cooldowns
  /\ t - cooldowns[alert_type] <= cooldown

\* trigger, the cooldown check: a recorded trigger less than cooldown ago
IsSuppressed(alert_type, t) ==
  /\ CooldownKey(alert_type) \in DOMAIN cooldowns
  /\ t - cooldowns[CooldownKey(alert_type)] < cooldown

\* trigger with the assignment to self._cooldowns put off until the sinks
\* have returned
RecordTriggerLater(table, alert_type, t) == table

\* trigger: self._cooldowns[alert_type] = now
RecordTrigger(table, alert_type, t) ==
  [k \in DOMAIN table \cup {CooldownKey(alert_type)} |->
     IF k = CooldownKey(alert_type) THEN t ELSE table[k]]

\* a suppressed call that moved the recorded time to its own
AfterSuppressedRefreshed(table, alert_type, t) ==
  [k \in DOMAIN table \cup {alert_type} |-> IF k = alert_type THEN t ELSE table[k]]

\* trigger, the early return of a suppressed call: self._cooldowns is not written
AfterSuppressed(table, alert_type, t) == table

\* trigger, after the log append: which sink is awaited first, if any
FirstSink(severity) ==
  IF onVisual THEN "visual"
  ELSE IF severity = "critical" /\ onVoice THEN "voice"
  ELSE "done"

\* trigger, after the visual sink returned: the voice sink for critical alerts
AfterVisual(severity) ==
  IF severity = "critical" /\ onVoice THEN "voice" ELSE "done"

\* trigger(alert_type, message, severity), up to its first suspension point:
\* what it does to the alert system
TriggerCall(alert_type, message, severity) ==
  /\ Len(hist) < MaxCalls
  /\ IF IsSuppressed(alert_type, now)
     THEN /\ hist' = Append(hist, [t |-> now, type |-> alert_type, msg |-> message,
                                   sev |-> severity, accepted |-> FALSE,
                                   visual |-> 0, voice |-> 0, pc |-> "done"])
          /\ cooldowns' = AfterSuppressed(cooldowns, alert_type, now)
          /\ UNCHANGED alertLog
     ELSE /\ cooldowns' = RecordTrigger(cooldowns, alert_type, now)
          /\ alertLog' = LogAlert(alertLog, alert_type, message, severity, now)
          /\ hist' = Append(hist, [t |-> now, type |-> alert_type, msg |-> message,
                                   sev |-> severity, accepted |-> TRUE,
                                   visual |-> IF FirstSink(severity) = "visual"
                                              THEN 1 ELSE 0,
                                   voice |-> IF FirstSink(severity) = "voice"
                                             THEN 1 ELSE 0,
                                   pc |-> FirstSink(severity)])

\* trigger(alert_type, message, severity) called from outside the monitors
Trigger(alert_type, message, severity) ==
  /\ TriggerCall(alert_type, message, severity)
  /\ UNCHANGED <<now, cooldown, onVisual, onVoice, recent,
                 monVars, hubVars, voiceVars>>

\* the awaited visual sink of call i returns, or raises into trigger
VisualReturns(i, ok) ==
  /\ i \in DOMAIN hist
  /\ hist[i].pc = "visual"
  /\ hist' = [hist EXCEPT ![i] =
       IF ok
       THEN [@ EXCEPT !.pc = AfterVisual(hist[i].sev),
                      !.voice = IF AfterVisual(hist[i].sev) = "voice" THEN 1 ELSE 0]
       ELSE [@ EXCEPT !.pc = "raised"]]
  /\ UNCHANGED <<now, cooldown, cooldowns, alertLog, onVisual, onVoice, recent,
                 monVars, hubVars, voiceVars>>

\* the awaited voice sink of call i returns, or raises into trigger
VoiceReturns(i, ok) ==
  /\ i \in DOMAIN hist
  /\ hist[i].pc = "voice"
  /\ hist' = [hist EXCEPT ![i] = [@ EXCEPT !.pc = IF ok THEN "done" ELSE "raised"]]
  /\ UNCHANGED <<now, cooldown, cooldowns, alertLog, onVisual, onVoice, recent,
                 monVars, hubVars, voiceVars>>

\* get_recent_alerts(count)
GetRecent(count) ==
  /\ recent' = [count |-> count, result |-> GetRecentAlerts(alertLog, count)]
  /\ UNCHANGED <<now, cooldown, cooldowns, alertLog, onVisual, onVoice, hist,
                 monVars, hubVars, voiceVars>>

\* time passes
Tick ==
  /\ now < MaxTime
  /\ now' = now + 1
  /\ UNCHANGED <<cooldown, cooldowns, alertLog, onVisual, onVoice, hist, recent,
                 monVars, hubVars, voiceVars>>

NextAlerts ==
  \/ \E k \in AlertKinds : Trigger(k[1], <<"m">>, k[2])
  \/ \E i \in 1..MaxCalls, ok \in BOOLEAN : VisualReturns(i, ok)
  \/ \E i \in 1..MaxCalls, ok \in BOOLEAN : VoiceReturns(i, ok)
  \/ Tick

SpecAlerts == InitAlerts /\ [][NextAlerts]_vars

\* ------------------------------------------------- the monitors of alerts.py
\* config["medication_reminders"]: two reminders that share the slot 1
Reminders ==
  << [name |-> "aspirin", times |-> {1}],
     [name |-> "insulin", times |-> {1, 2}] >>

\* now.strftime("%H:%M"): the minute of the day, one tick a minute
TimeOfDay(t) == t

\* f"Time to take {med['name']}"
ReminderMessage(med) == <<"Time to take ", med.name>>

\* f"No movement for {hours:.1f} hours"
InactivityMessage(hours) == <<"No movement for ", ToString(hours), " hours">>

\* check_inactivity with the test hours >= threshold
BreachAtThreshold(hours) == hours >= threshold

\* check_inactivity: if hours > threshold
Breach(hours) == hours > threshold

\* where a monitor stands once the trigger call it made has reached its
\* first suspension point or has returned
AfterCall(pc) == IF pc = "done" THEN "check" ELSE "await"

InitMonitors ==
  /\ now = 0
  /\ cooldown \in 1..MaxCooldown
  /\ cooldowns = [k \in {} |-> 0]
  /\ alertLog = <<>>
  /\ onVisual \in BOOLEAN
  /\ onVoice = FALSE
  /\ hist = <<>>
  /\ recent = NoRead
  /\ lastMotion = 0
  /\ threshold \in 1..MaxThreshold
  /\ inact = InactStart
  /\ rem = RemStart
  /\ HubUnused
  /\ VoiceUnused

\* check_inactivity: one turn of the loop, up to the await in trigger or to
\* asyncio.sleep
InactivityCheck ==
  /\ inact.pc = "check"
  /\ IF Breach(now - lastMotion)
     THEN /\ TriggerCall("inactivity", InactivityMessage(now - lastMotion), "warning")
          /\ inact' = [pc |-> IF hist'[Len(hist')].pc = "done" THEN "sleep" ELSE "await",
                       call |-> Len(hist'), at |-> now, fired |-> TRUE]
     ELSE /\ inact' = [inact EXCEPT !.pc = "sleep", !.at = now, !.fired = FALSE]
          /\ UNCHANGED <<cooldowns, alertLog, hist>>
  /\ UNCHANGED <<now, cooldown, onVisual, onVoice, recent, lastMotion, threshold,
                 rem, hubVars, voiceVars>>

\* check_inactivity: the trigger call it awaits returns, or raises into it
InactivityResume ==
  /\ inact.pc = "await"
  /\ hist[inact.call].pc \in {"done", "raised"}
  /\ inact' = [inact EXCEPT !.pc = IF hist[inact.call].pc = "done"
                                   THEN "sleep" ELSE "dead"]
  /\ UNCHANGED <<now, cooldown, cooldowns, alertLog, onVisual, onVoice, hist,
                 recent, lastMotion, threshold, rem, hubVars, voiceVars>>

\* update_motion
UpdateMotion ==
  /\ lastMotion # now
  /\ lastMotion' = now
  /\ UNCHANGED <<now, cooldown, cooldowns, alertLog, onVisual, onVoice, hist,
                 recent, threshold, inact, rem, hubVars, voiceVars>>

\* the reminders from position idx on whose times hold the slot
Due(idx, slot) == {i \in idx..Len(Reminders) : slot \in Reminders[i].times}

\* check_medication_reminders: the loop over the reminders reaches the next
\* one whose times hold current_time and calls trigger for it
ReminderCall ==
  LET slot == IF rem.idx = 1 THEN TimeOfDay(now) ELSE rem.slot
      due == Due(rem.idx, slot)
      i == CHOOSE i \in due : \A j \in due : i <= j
  IN /\ rem.pc = "check"
     /\ due # {}
     /\ TriggerCall("medication", ReminderMessage(Reminders[i]), "info")
     /\ rem' = [pc |-> AfterCall(hist'[Len(hist')].pc), idx |-> i + 1,
                slot |-> slot, call |-> Len(hist')]
     /\ UNCHANGED <<now, cooldown, onVisual, onVoice, recent, lastMotion,
                    threshold, inact, hubVars, voiceVars>>

\* check_medication_reminders: the loop over the reminders is through, the
\* monitor goes to asyncio.sleep
ReminderSleep ==
  LET slot == IF rem.idx = 1 THEN TimeOfDay(now) ELSE rem.slot
  IN /\ rem.pc = "check"
     /\ Due(rem.idx, slot) = {}
     /\ rem' = [rem EXCEPT !.pc = "sleep", !.slot = slot,
                           !.idx = Len(Reminders) + 1]
     /\ UNCHANGED <<now, cooldown, cooldowns, alertLog, onVisual, onVoice, hist,
                    recent, lastMotion, threshold, inact, hubVars, voiceVars>>

\* check_medication_reminders: the trigger call it awaits returns, or raises
\* into it
ReminderResume ==
  /\ rem.pc = "await"
  /\ hist[rem.call].pc \in {"done", "raised"}
  /\ rem' = [rem EXCEPT !.pc = IF hist[rem.call].pc = "done"
                               THEN "check" ELSE "dead"]
  /\ UNCHANGED <<now, cooldown, cooldowns, alertLog, onVisual, onVoice, hist,
                 recent, lastMotion, threshold, inact, hubVars, voiceVars>>

\* a monitor in asyncio.sleep is at the top of its loop on the next tick
Woken(m) == IF m.pc = "sleep" THEN "check" ELSE m.pc

\* time passes: a minute for the reminders, a check interval for inactivity
MonitorTick ==
  /\ now < MaxTime
  /\ now' = now + 1
  /\ inact' = [inact EXCEPT !.pc = Woken(inact)]
  /\ rem' = [rem EXCEPT !.pc = Woken(rem),
                        !.idx = IF rem.pc = "sleep" THEN 1 ELSE @]
  /\ UNCHANGED <<cooldown, cooldowns, alertLog, onVisual, onVoice, hist, recent,
                 lastMotion, threshold, hubVars, voiceVars>>

NextMonitors ==
  \/ InactivityCheck
  \/ InactivityResume
  \/ UpdateMotion
  \/ ReminderCall
  \/ ReminderSleep
  \/ ReminderResume
  \/ \E i \in 1..MaxCalls, ok \in BOOLEAN : VisualReturns(i, ok)
  \/ MonitorTick

SpecMonitors == InitMonitors /\ [][NextMonitors]_vars

\* the log written and read back: the sinks left unset, any message text
InitAlertLog ==
  /\ InitAlerts
  /\ cooldown = MaxCooldown
  /\ ~onVisual
  /\ ~onVoice

NextAlertLog ==
  \/ \E k \in AlertKinds, m \in Messages : Trigger(k[1], m, k[2])
  \/ GetRecent(DefaultCount)
  \/ Tick

SpecAlertLog == InitAlertLog /\ [][NextAlertLog]_vars

\* get_recent_alerts on a log the process finds at start: MaxLines or fewer
\* records, each written by _log_alert
CallRecord(k, m, t) ==
  [t |-> t, type |-> k[1], msg |-> m, sev |-> k[2], accepted |-> TRUE,
   visual |-> 0, voice |-> 0, pc |-> "done"]

RECURSIVE WriteAll(_)
WriteAll(calls) ==
  IF calls = <<>> THEN <<>>
  ELSE LET c == calls[Len(calls)]
       IN LogAlert(WriteAll(SubSeq(calls, 1, Len(calls) - 1)),
                   c.type, c.msg, c.sev, c.t)

InitLog ==
  /\ now = 0
  /\ cooldown = MaxCooldown
  /\ cooldowns = [k \in {} |-> 0]
  /\ hist \in UNION {[1..n -> {CallRecord(k, m, 0) : k \in AlertKinds, m \in Messages}] :
                       n \in 0..MaxLines}
  /\ alertLog = WriteAll(hist)
  /\ onVisual = FALSE
  /\ onVoice = FALSE
  /\ recent = NoRead
  /\ MonitorsUnused
  /\ HubUnused
  /\ VoiceUnused

NextLog == \E c \in 0..MaxCount : GetRecent(c)

SpecLog == InitLog /\ [][NextLog]_vars

\* lines of alerts.jsonl that _log_alert did not write whole: an empty line,
\* stray text, a record cut short, a record with an escape JSON does not
\* have, two records on one line
DamagedLines ==
  LET whole == JsonDumps([timestamp |-> IsoFormat(0), type |-> <<"fall">>,
                          message |-> <<"m">>, severity |-> <<"critical">>])
  IN {<<>>, <<"m">>, SubSeq(whole, 1, Len(whole) - 1),
      <<"{", DQ, "type", DQ, ":", SP, DQ, BS, "q", DQ, "}">>,
      whole \o whole}

\* a line of the file that is not the record of a trigger call
DamagedRecord(line) ==
  [t |-> 0, type |-> "", msg |-> line, sev |-> "", accepted |-> FALSE,
   visual |-> 0, voice |-> 0, pc |-> "damaged"]

\* the file holding, line by line, the records and the damaged lines
RECURSIVE WriteLines(_)
WriteLines(calls) ==
  IF calls = <<>> THEN <<>>
  ELSE LET c == calls[Len(calls)]
           before == WriteLines(SubSeq(calls, 1, Len(calls) - 1))
       IN IF c.pc = "damaged" THEN before \o c.msg \o <<NL>>
          ELSE LogAlert(before, c.type, c.msg, c.sev, c.t)

\* get_recent_alerts on a log the process finds at start, some lines damaged
InitDamagedLog ==
  /\ now = 0
  /\ cooldown = MaxCooldown
  /\ cooldowns = [k \in {} |-> 0]
  /\ hist \in UNION {[1..n -> {CallRecord(k, <<"m">>, 0) : k \in AlertKinds}
                              \cup {DamagedRecord(l) : l \in DamagedLines}] :
                       n \in 0..MaxLines}
  /\ alertLog = WriteLines(hist)
  /\ onVisual = FALSE
  /\ onVoice = FALSE
  /\ recent = NoRead
  /\ MonitorsUnused
  /\ HubUnused
  /\ VoiceUnused

SpecDamagedLog == InitDamagedLog /\ [][NextLog]_vars

\* ------------------------------------------------- properties of alerts.py
Accepted == {i \in DOMAIN hist : hist[i].accepted}

\* two calls of one alert type, the later less than the cooldown after the earlier
Within(i, j) ==
  /\ i < j
  /\ hist[i].type = hist[j].type
  /\ hist[j].t - hist[i].t < cooldown

\* C1: of two trigger calls of one type less than the cooldown apart, the
\* second is suppressed when the first was accepted (one log line, one visual
\* notification for the pair) and never both are accepted; a call at least
\* the cooldown after every earlier call of its type is accepted; every
\* accepted call appends one log line and, with a visual sink set, notifies
\* it once; a suppressed call does neither.
C1_Cooldown ==
  /\ \A i, j \in DOMAIN hist :
       Within(i, j) => ~(hist[i].accepted /\ hist[j].accepted)
  /\ \A j \in DOMAIN hist :
       (\A i \in 1..(j - 1) : hist[i].type = hist[j].type
                               => hist[j].t - hist[i].t >= cooldown)
       => hist[j].accepted
  /\ Len(FileLines(alertLog)) = Cardinality(Accepted)
  /\ \A i \in DOMAIN hist :
       hist[i].visual = IF hist[i].accepted /\ onVisual THEN 1 ELSE 0

C1_Witness ==
  /\ onVisual
  /\ \E i, j \in DOMAIN hist :
       /\ Within(i, j)
       /\ hist[i].accepted /\ ~hist[j].accepted
       /\ hist[i].visual = 1 /\ hist[j].visual = 0
       /\ Len(FileLines(alertLog)) = 1

\* C2: a step changes the cooldown entry of a type only by a trigger call of
\* that type, and a call is suppressed only when an accepted call of its own
\* type lies less than the cooldown before it, whatever calls of other types
\* were made or are still awaiting their sinks.
C2_PerType ==
  /\ [][\A k \in AlertTypes :
          (k \in DOMAIN cooldowns' /\ (k \notin DOMAIN cooldowns
                                        \/ cooldowns'[k] # cooldowns[k]))
          => (Len(hist') = Len(hist) + 1 /\ hist'[Len(hist')].type = k)]_vars
  /\ [](\A j \in DOMAIN hist :
          ~hist[j].accepted
          => \E i \in DOMAIN hist : Within(i, j) /\ hist[i].accepted)

C2_Witness ==
  \E i, j \in DOMAIN hist :
    /\ i < j
    /\ hist[i].type # hist[j].type
    /\ hist[j].t - hist[i].t < cooldown
    /\ hist[i].accepted /\ hist[j].accepted
    /\ hist[i].pc \in {"visual", "voice"}
    /\ cooldowns[hist[i].type] = hist[i].t

\* Python: d[key] for the dict json.loads returned; <<>> when it has no such key
DictGet(d, key) ==
  IF \E n \in DOMAIN d : d[n][1] = key
  THEN d[CHOOSE n \in DOMAIN d : d[n][1] = key /\ \A m \in DOMAIN d : d[m][1] = key => m <= n][2]
  ELSE <<>>

\* type, message and severity of the records get_recent_alerts returned
Fields(result) ==
  [n \in DOMAIN result |->
     <<DictGet(result[n], <<"type">>), DictGet(result[n], <<"message">>),
       DictGet(result[n], <<"severity">>)>>]

\* type, message and severity of the accepted calls, in call order
RECURSIVE AcceptedFields(_)
AcceptedFields(calls) ==
  IF calls = <<>> THEN <<>>
  ELSE LET c == calls[Len(calls)]
       IN AcceptedFields(SubSeq(calls, 1, Len(calls) - 1))
          \o (IF c.accepted THEN << <<(<<c.type>>), c.msg, <<c.sev>> >> >> ELSE <<>>)

\* C9: every get_recent_alerts call with a count no smaller than the number
\* of alerts returns exactly the accepted trigger calls made so far, in
\* order, each with the type, message and severity it was given; suppressed
\* calls are not among them.
C9_RoundTrip ==
  [][recent' # recent => Fields(recent'.result) = AcceptedFields(hist')]_vars

C9_Witness ==
  /\ recent # NoRead
  /\ Len(recent.result) = 1
  /\ Len(hist) = 2
  /\ hist[1].accepted /\ ~hist[2].accepted
  /\ hist[1].msg = <<"a", NL, DQ, BS, "n">>
  /\ Fields(recent.result) = AcceptedFields(hist)

\* C10: get_recent_alerts(count) on a log of n well-formed records returns
\* the last min(count, n) of them in the order written, for every count >= 0.
C10_LastCount ==
  recent # NoRead =>
    LET all == AcceptedFields(hist)
        n == Len(all)
        k == IF recent.count < n THEN recent.count ELSE n
    IN Fields(recent.result) = SubSeq(all, n - k + 1, n)

C18_SuppressedNoOp ==
  /\ [][(Len(hist') = Len(hist) + 1 /\ ~hist'[Len(hist')].accepted)
        => /\ cooldowns' = cooldowns
           /\ alertLog' = alertLog
           /\ SubSeq(hist', 1, Len(hist)) = hist
           /\ hist'[Len(hist')].pc = "done"]_vars
  /\ [](\A i \in DOMAIN hist :
          ~hist[i].accepted => hist[i].visual = 0 /\ hist[i].voice = 0)
  /\ [](\A k \in DOMAIN cooldowns :
          \E i \in Accepted :
            /\ hist[i].type = k /\ hist[i].t = cooldowns[k]
            /\ \A j \in Accepted : hist[j].type = k => hist[j].t <= hist[i].t)

C18_Witness ==
  \E i, j \in DOMAIN hist :
    /\ i < j /\ hist[i].type = hist[j].type
    /\ hist[i].accepted /\ ~hist[j].accepted
    /\ hist[j].t > hist[i].t
    /\ cooldowns[hist[i].type] = hist[i].t

\* the accepted calls up to call i
AcceptedUpTo(i) == {j \in Accepted : j <= i}

\* C19: in every state in which an accepted trigger call has reached a sink
\* (it awaits the sink, the sink returned, or the sink raised), the record of
\* that call is in the log, at the place of the call among the accepted ones.
C19_LogBeforeSinks ==
  LET reached == {i \in Accepted : \/ hist[i].visual = 1 \/ hist[i].voice = 1
                                   \/ hist[i].pc = "raised"}
      lines == IF reached = {} THEN <<>> ELSE FileLines(alertLog)
  IN \A i \in reached :
       LET k == Cardinality(AcceptedUpTo(i))
       IN /\ Len(lines) >= k
          /\ lines[k] = JsonDumps([timestamp |-> IsoFormat(hist[i].t),
                                   type |-> <<hist[i].type>>,
                                   message |-> hist[i].msg,
                                   severity |-> <<hist[i].sev>>])

C19_Witness ==
  \E i \in Accepted :
    /\ hist[i].pc = "raised"
    /\ hist[i].visual = 1
    /\ Len(FileLines(alertLog)) = Cardinality(AcceptedUpTo(i))

\* C20: with a voice sink set, an accepted trigger call that has ended
\* reached the voice sink exactly when its severity is critical.
C20_VoiceIffCritical ==
  onVoice =>
    \A i \in Accepted :
      hist[i].pc \in {"done", "raised"}
      => (hist[i].voice = 1 <=> hist[i].sev = "critical")

\* =============================================================== sensors.py
\* __init__ and init(): the bus opened, or left None when smbus2 or the bus fails
InitHub ==
  /\ bus \in {"none", "open"}
  /\ HubConstructed
  /\ AlertsUnused
  /\ VoiceUnused

\* register(name, read_fn, interval, i2c_addr): the entry is (re)placed
Register(name, read_fn, i2c_addr) ==
  /\ phase = "setup"
  /\ sensors' = [n \in DOMAIN sensors \cup {name} |->
                   IF n = name
                   THEN [status |-> "pending", value |-> "-", error_count |-> 0,
                         read_fn |-> read_fn, i2c_addr |-> i2c_addr]
                   ELSE sensors[n]]
  /\ order' = IF name \in DOMAIN sensors THEN order ELSE Append(order, name)
  /\ UNCHANGED <<bus, phase, startQueue, tasks, hubDown, lastProbe, subVars,
                 orphans, scanned, alertVars, voiceVars>>

\* probe(name) takes the bus path: sensor["i2c_addr"] and self._bus
ProbesBus(sensor) == sensor.i2c_addr /\ bus # "none"

\* probe(name): whether the liveness check can succeed, can fail
ProbeCanSucceed(sensor) ==
  \/ ProbesBus(sensor) /\ bus = "open"
  \/ ~ProbesBus(sensor) /\ sensor.read_fn

\* probe(name): the entry after a probe whose check succeeded (ok) or raised
Probed(sensor, ok) ==
  IF ProbesBus(sensor)
  THEN [sensor EXCEPT !.status = IF ok THEN "connected" ELSE "offline"]
  ELSE IF sensor.read_fn
  THEN (IF ok THEN [sensor EXCEPT !.status = "connected", !.value = "val"]
        ELSE [sensor EXCEPT !.status = "offline"])
  ELSE sensor

\* probe(name): the value returned
ProbeReturns(sensor, ok) ==
  IF ProbesBus(sensor) \/ sensor.read_fn THEN ok ELSE FALSE

\* the comparison that marks a sensor offline
TooManyErrorsAtThreshold(n) == n >= ErrorThreshold

\* poll_sensor: sensor["error_count"] > 5
TooManyErrors(n) == n > ErrorThreshold

\* poll_sensor, the except branch of a read
ReadFailed(sensor) ==
  IF TooManyErrors(sensor.error_count + 1)
  THEN [sensor EXCEPT !.error_count = @ + 1, !.status = "offline", !.value = "ERR"]
  ELSE [sensor EXCEPT !.error_count = @ + 1]

\* a read that returned and left the error counter as it was
ReadSucceededKeepCount(sensor) == [sensor EXCEPT !.value = "val"]

\* poll_sensor, a read that returned
ReadSucceeded(sensor) == [sensor EXCEPT !.value = "val", !.error_count = 0]

\* start_all is called
StartAll ==
  /\ phase = "setup"
  /\ phase' = "starting"
  /\ startQueue' = order
  /\ UNCHANGED <<bus, order, sensors, tasks, hubDown, lastProbe, subVars,
                 orphans, scanned, alertVars, voiceVars>>

\* start_all, first loop: await self.probe(name) for the next name
StartProbe(ok) ==
  /\ phase = "starting"
  /\ startQueue # <<>>
  /\ LET name == Head(startQueue)
     IN /\ ok => ProbeCanSucceed(sensors[name])
        /\ sensors' = [sensors EXCEPT ![name] = Probed(@, ok)]
        /\ lastProbe' = [name |-> name, ret |-> ProbeReturns(sensors[name], ok)]
  /\ startQueue' = Tail(startQueue)
  /\ UNCHANGED <<bus, order, phase, tasks, hubDown, subVars, orphans,
                 scanned, alertVars, voiceVars>>

\* start_all, after the probes: the snapshot is published (what a subscriber
\* does with it is its own affair), then one polling task per sensor with a
\* read_fn is created and self._tasks is replaced by the new list
StartTasks ==
  /\ phase = "starting"
  /\ startQueue = <<>>
  /\ orphans' = [n \in SensorNames |->
                   IF tasks[n] \in {"none", "cancelled"} THEN orphans[n] ELSE "running"]
  /\ tasks' = [n \in SensorNames |->
                 IF n \in DOMAIN sensors /\ sensors[n].read_fn THEN "sleep" ELSE "none"]
  /\ cbAt' = [n \in SensorNames |-> 0]
  /\ phase' = "started"
  /\ UNCHANGED <<bus, order, sensors, startQueue, hubDown, lastProbe, callbacks,
                 delivered, scanned, alertVars, voiceVars>>

\* poll_sensor(name): an iteration starts and runs to its first await
PollBegin(name) ==
  /\ tasks[name] = "sleep"
  /\ tasks' = [tasks EXCEPT ![name] =
       IF sensors[name].status = "connected" /\ sensors[name].read_fn THEN "reading"
       ELSE IF sensors[name].status = "offline" THEN "probing"
       ELSE "sleep"]
  /\ UNCHANGED <<bus, order, sensors, phase, startQueue, hubDown, lastProbe,
                 subVars, orphans, scanned, alertVars, voiceVars>>

\* poll_sensor(name): the awaited read returns or raises; after a read that
\* returned, the first callback is called with the update
PollReadDone(name, ok) ==
  /\ tasks[name] = "reading"
  /\ ~ok => sensors[name].error_count < MaxErrors
  /\ sensors' = [sensors EXCEPT ![name] =
       IF ok THEN ReadSucceeded(@) ELSE ReadFailed(@)]
  /\ IF ok /\ callbacks > 0
     THEN /\ tasks' = [tasks EXCEPT ![name] = "notify"]
          /\ cbAt' = [cbAt EXCEPT ![name] = 1]
          /\ delivered' = [delivered EXCEPT ![name] =
               [status |-> sensors'[name].status, value |-> sensors'[name].value,
                seen |-> {1}, raised |-> {},
                reset |-> sensors[name].error_count]]
     ELSE /\ tasks' = [tasks EXCEPT ![name] = "sleep"]
          /\ UNCHANGED <<cbAt, delivered>>
  /\ UNCHANGED <<bus, order, phase, startQueue, hubDown, lastProbe, callbacks,
                 orphans, scanned, alertVars, voiceVars>>

\* a loop over the callbacks that a raising callback ends
AfterCallbackAborting(i, ok) == IF ok /\ i < callbacks THEN i + 1 ELSE 0

\* poll_sensor, for cb in self.callbacks: the callback called after callback
\* i returned or raised, 0 when i was the last
AfterCallback(i, ok) == IF i < callbacks THEN i + 1 ELSE 0

\* poll_sensor(name): the awaited callback returns or raises
PollNotify(name, ok) ==
  /\ tasks[name] = "notify"
  /\ LET i == cbAt[name]
         next == AfterCallback(i, ok)
     IN /\ cbAt' = [cbAt EXCEPT ![name] = next]
        /\ tasks' = [tasks EXCEPT ![name] = IF next = 0 THEN "sleep" ELSE "notify"]
        /\ delivered' = [delivered EXCEPT ![name] =
             [@ EXCEPT !.seen = IF next = 0 THEN @ ELSE @ \cup {next},
                       !.raised = IF ok THEN @ ELSE @ \cup {i}]]
  /\ UNCHANGED <<bus, order, sensors, phase, startQueue, hubDown, lastProbe,
                 callbacks, orphans, scanned, alertVars, voiceVars>>

\* poll_sensor(name): the probe of an offline sensor ends
PollProbeDone(name, ok) ==
  /\ tasks[name] = "probing"
  /\ ok => ProbeCanSucceed(sensors[name])
  /\ sensors' = [sensors EXCEPT ![name] = Probed(@, ok)]
  /\ lastProbe' = [name |-> name, ret |-> ProbeReturns(sensors[name], ok)]
  /\ tasks' = [tasks EXCEPT ![name] = "sleep"]
  /\ UNCHANGED <<bus, order, phase, startQueue, hubDown, subVars, orphans,
                 scanned, alertVars, voiceVars>>

\* cleanup: for task in self._tasks: task.cancel()
CancelAll(ts) ==
  [n \in SensorNames |-> IF ts[n] = "none" THEN "none" ELSE "cancelled"]

\* cleanup: if self._bus: self._bus.close()
CloseBus(b) == IF b = "none" THEN "none" ELSE "closed"

\* cleanup(): every task of self._tasks cancelled, the bus closed
Cleanup ==
  /\ tasks' = CancelAll(tasks)
  /\ cbAt' = [n \in SensorNames |-> 0]
  /\ bus' = CloseBus(bus)
  /\ hubDown' = TRUE
  /\ UNCHANGED <<order, sensors, phase, startQueue, lastProbe, callbacks,
                 delivered, orphans, scanned, alertVars, voiceVars>>

\* on_update(callback), while the hub is being set up
OnUpdate ==
  /\ phase = "setup"
  /\ callbacks < MaxSubscribers
  /\ callbacks' = callbacks + 1
  /\ UNCHANGED <<bus, order, sensors, phase, startQueue, tasks, hubDown,
                 lastProbe, cbAt, delivered, orphans, scanned, alertVars, voiceVars>>

\* start_all is called again, after an earlier call has returned
Restart ==
  /\ phase = "started"
  /\ phase' = "starting"
  /\ startQueue' = order
  /\ UNCHANGED <<bus, order, sensors, tasks, hubDown, lastProbe, subVars,
                 orphans, scanned, alertVars, voiceVars>>

PollStep(name) ==
  \/ PollBegin(name)
  \/ \E ok \in BOOLEAN : PollReadDone(name, ok)
  \/ \E ok \in BOOLEAN : PollProbeDone(name, ok)

StartStep ==
  \/ \E ok \in BOOLEAN : StartProbe(ok)
  \/ StartTasks

NextHub ==
  \/ \E n \in SensorNames, r \in BOOLEAN, a \in BOOLEAN : Register(n, r, a)
  \/ StartAll
  \/ StartStep
  \/ \E n \in SensorNames : PollStep(n)
  \/ Cleanup

SpecHub == InitHub /\ [][NextHub]_vars

\* one sensor, with subscribers
OneSensor == "BME280"

NextHubOne ==
  \/ OnUpdate
  \/ \E r \in BOOLEAN, a \in BOOLEAN : Register(OneSensor, r, a)
  \/ StartAll
  \/ StartStep
  \/ PollStep(OneSensor)
  \/ \E ok \in BOOLEAN : PollNotify(OneSensor, ok)
  \/ Cleanup

SpecHubOne == InitHub /\ [][NextHubOne]_vars

\* one sensor, start_all called any number of times
NextHubRestart ==
  \/ \E r \in BOOLEAN, a \in BOOLEAN : Register(OneSensor, r, a)
  \/ StartAll
  \/ StartStep
  \/ Restart
  \/ PollStep(OneSensor)
  \/ Cleanup

SpecHubRestart == InitHub /\ [][NextHubRestart]_vars

\* the sensor whose read operation never completes
Wedged == "MAX30102"

\* probe(name) gets to "await sensor['read_fn']()"
AwaitsRead(sensor) == ~ProbesBus(sensor) /\ sensor.read_fn

\* start_all goes on: a probe returns, unless it awaits the read operation
\* of the wedged sensor, or the tasks are created
WedgedStartStep ==
  \/ /\ startQueue # <<>>
     /\ ~(Head(startQueue) = Wedged /\ AwaitsRead(sensors[Head(startQueue)]))
     /\ \E ok \in BOOLEAN : StartProbe(ok)
  \/ StartTasks

\* poll_sensor(name) goes on: a read of the wedged sensor never returns, nor
\* does a probe that awaits its read operation
WedgedPollStep(name) ==
  \/ PollBegin(name)
  \/ /\ name # Wedged
     /\ \E ok \in BOOLEAN : PollReadDone(name, ok)
  \/ /\ tasks[name] = "probing"
     /\ ~(name = Wedged /\ AwaitsRead(sensors[name]))
     /\ \E ok \in BOOLEAN : PollProbeDone(name, ok)

NextHubWedged ==
  \/ \E n \in SensorNames, r \in BOOLEAN, a \in BOOLEAN : Register(n, r, a)
  \/ StartAll
  \/ WedgedStartStep
  \/ \E n \in SensorNames : WedgedPollStep(n)

\* a hub with a wedged device, the event loop running every task that can run
SpecHubWedged ==
  /\ InitHub
  /\ [][NextHubWedged]_vars
  /\ WF_vars(WedgedStartStep)
  /\ \A n \in SensorNames : WF_vars(WedgedPollStep(n))

\* self._bus.read_byte(addr) as an awaited call, in which the caller can be
\* suspended
BusReadAwaited == TRUE

\* self._bus.read_byte(addr) in probe and scan_i2c is an ordinary call: the
\* coroutine that makes it cannot be suspended before it has returned
BusReadSuspends == FALSE

\* the polling tasks suspended in the middle of a bus transaction
OnBus ==
  {n \in SensorNames :
     /\ tasks[n] = "probing"
     /\ ProbesBus(sensors[n])
     /\ BusReadSuspends}

\* scan_i2c(), from its first line to its return: without a bus it returns
\* {}, else it reads every address in turn and returns those that answered
ScanI2c ==
  /\ \E found \in SUBSET SensorNames :
       /\ bus # "open" => found = {}
       /\ scanned' = [done |-> TRUE, found |-> found]
  /\ UNCHANGED <<bus, order, sensors, phase, startQueue, tasks, hubDown,
                 lastProbe, subVars, orphans, alertVars, voiceVars>>

\* sensors with a bus address, and the discovery scan
NextHubBus ==
  \/ \E n \in SensorNames, r \in BOOLEAN : Register(n, r, TRUE)
  \/ StartAll
  \/ StartStep
  \/ \E n \in SensorNames : PollStep(n)
  \/ ScanI2c
  \/ Cleanup

SpecHubBus == InitHub /\ [][NextHubBus]_vars

\* the event loop runs every task that can run: start_all goes on, a sleep
\* ends, an awaited read or probe ends
SpecHubFair ==
  /\ SpecHub
  /\ WF_vars(StartStep)
  /\ \A n \in SensorNames : WF_vars(PollStep(n))

\* ------------------------------------------------ properties of sensors.py
\* a step in which the awaited read of sensor n raised
FailedRead(n) ==
  /\ n \in DOMAIN sensors
  /\ tasks[n] = "reading"
  /\ sensors[n].status = "connected"
  /\ sensors'[n].error_count = sensors[n].error_count + 1

\* C3 as claimed: counting consecutive failed reads of a Connected sensor from
\* an error counter of 0, the sensor is Offline right after the 5th and still
\* Connected after every earlier one.
C3_OfflineAtFifth ==
  [][\A n \in SensorNames :
       (FailedRead(n) /\ sensors'[n].error_count <= ErrorThreshold)
       => (sensors'[n].status = "offline"
           <=> sensors'[n].error_count = ErrorThreshold)]_vars

\* C3 amended: counting consecutive failed reads of a Connected sensor from an
\* error counter of 0, the sensor is still Connected after the 5th (and every
\* earlier one) and Offline, with value ERR, right after the 6th.
C3_OfflineAtSixth ==
  [][\A n \in SensorNames :
       (FailedRead(n) /\ sensors'[n].error_count <= ErrorThreshold + 1)
       => /\ sensors'[n].status = "offline"
             <=> sensors'[n].error_count = ErrorThreshold + 1
          /\ sensors'[n].status = "connected"
             <=> sensors'[n].error_count <= ErrorThreshold
          /\ sensors'[n].status = "offline" => sensors'[n].value = "ERR"]_vars

C3_Witness ==
  \E n \in DOMAIN sensors :
    /\ sensors[n].status = "offline"
    /\ sensors[n].error_count = ErrorThreshold + 1
    /\ sensors[n].value = "ERR"
    /\ tasks[n] = "sleep"

\* C4: every registered sensor that is Offline while the hub is started and
\* not shut down is eventually probed again (or the hub is shut down).
C4_OfflineReprobed ==
  \A n \in SensorNames :
    (n \in DOMAIN sensors /\ sensors[n].status = "offline"
       /\ phase = "started" /\ ~hubDown)
    ~> (tasks[n] = "probing" \/ hubDown)

\* C12: registering a name that is already registered leaves its entry as it
\* was (while the hub is being set up only register writes the registry), and
\* a name new to the registry is added as Pending.
C12_RejectsDuplicate ==
  [][(phase = "setup" /\ phase' = "setup")
     => /\ \A n \in DOMAIN sensors : sensors'[n] = sensors[n]
        /\ \A n \in DOMAIN sensors' \ DOMAIN sensors :
             sensors'[n].status = "pending"]_vars

\* the sensor was registered with a read_fn or with a bus address
HasCheck(sensor) == sensor.read_fn \/ sensor.i2c_addr

\* C13: when a probe of a registered sensor (one with a read_fn or a bus
\* address) returns, the sensor is Connected if it returned true and Offline
\* if it returned false.
C13_ProbeOutcome ==
  [][(lastProbe' # lastProbe /\ HasCheck(sensors'[lastProbe'.name]))
     => LET n == lastProbe'.name
        IN /\ lastProbe'.ret => sensors'[n].status = "connected"
           /\ ~lastProbe'.ret => sensors'[n].status = "offline"]_vars

\* C14: when start_all completes, every registered sensor (one with a read_fn
\* or a bus address) is Connected or Offline, and a polling task runs for
\* exactly the sensors with a read_fn.
C14_InitialPartition ==
  [][(phase = "starting" /\ phase' = "started")
     => \A n \in DOMAIN sensors' :
          /\ HasCheck(sensors'[n]) => sensors'[n].status \in {"connected", "offline"}
          /\ tasks'[n] = "sleep" <=> sensors'[n].read_fn]_vars

\* C15: when the loop over the callbacks of one update ends (the task not
\* being cancelled), every subscriber has been called with it, whichever of
\* them raised, and the polling task goes to sleep for its next iteration;
\* a task one of whose callbacks raised is still running unless cleanup
\* cancelled it.
C15_SubscriberIsolation ==
  /\ [][\A n \in SensorNames :
          (tasks[n] = "notify" /\ tasks'[n] \notin {"notify", "cancelled"})
          => /\ delivered'[n].seen = 1..callbacks
             /\ tasks'[n] = "sleep"]_vars
  /\ [](\A n \in SensorNames :
          delivered[n].raised # {}
          => tasks[n] \in {"sleep", "reading", "probing", "notify", "cancelled"})

C15_Witness ==
  /\ callbacks = MaxSubscribers
  /\ tasks[OneSensor] = "reading"
  /\ 1 \in delivered[OneSensor].raised
  /\ delivered[OneSensor].seen = 1..callbacks

\* C16: once the iteration in which a polling task marked its sensor Offline
\* for too many errors is over, every subscriber has been called with the
\* update (name, Offline, "ERR").
C16_OfflinePublished ==
  \A n \in DOMAIN sensors :
    (/\ sensors[n].status = "offline" /\ sensors[n].value = "ERR"
     /\ tasks[n] = "sleep" /\ callbacks > 0)
    => /\ delivered[n].status = "offline"
       /\ delivered[n].value = "ERR"
       /\ delivered[n].seen = 1..callbacks

\* C17: the first cleanup leaves no polling task that start_all ever created
\* running and the bus not open; cancelling and closing a second time
\* changes nothing.
C17_ShutdownTotal ==
  /\ [][(hubDown' /\ ~hubDown)
        => /\ \A n \in SensorNames :
                tasks'[n] \in {"none", "cancelled"} /\ orphans'[n] # "running"
           /\ bus' # "open"]_vars
  /\ [](/\ CancelAll(CancelAll(tasks)) = CancelAll(tasks)
        /\ CloseBus(CloseBus(bus)) = CloseBus(bus))

\* --------------------------------------------------------- VoiceAssistant
\* config "wake_word"
WakeWord == "hey maya"

\* what the recogniser may return as the text of a final result
RawResults ==
  {"hey maya", "Hey Maya what time is it ", "what is today's date",
   " Stop", "hey maya quiet please"}

\* command texts handed to _handle_command by a caller other than the loop
InjectedTexts == {"DATE", "my vitals", "thank you good night"}

\* keywords a caller registers, and the handler it registers them for
CustomKeywords == {"Vitals"}

CustomHandler == "cmd_readings"

Mode(l) == IF l THEN "active" ELSE "idle"

\* text.split(wake_word, 1)[0]
BeforeWake(text) == SubSeq(text, 1, Find(WakeWord, text) - 1)

\* text.split(wake_word, 1)[-1]
AfterWake(text) ==
  SubSeq(text, Find(WakeWord, text) + Len(WakeWord), Len(text))

\* the test of the loop in _handle_command, ignoring letter case
KeyMatchesAnyCase(key, command) == IsSubstr(Lower(key), Lower(command))

\* the test of the loop in _handle_command: key in command
KeyMatches(key, command) == IsSubstr(key, command)

\* _handle_command's loop run to its end: the last entry whose key occurs in
\* the command
MatchHandlerLast(table, command) ==
  LET hits == {n \in DOMAIN table : KeyMatches(table[n][1], command)}
  IN IF hits = {} THEN "fallback"
     ELSE table[CHOOSE n \in hits : \A m \in hits : n >= m][2]

\* _handle_command's loop over command_handlers.items(): the first entry
\* whose key occurs in the command, or the default response
MatchHandler(table, command) ==
  LET hits == {n \in DOMAIN table : KeyMatches(table[n][1], command)}
  IN IF hits = {} THEN "fallback"
     ELSE table[CHOOSE n \in hits : \A m \in hits : n <= m][2]

\* self.command_handlers[key] = handler, keeping the insertion order
DictSet(table, key, handler) ==
  IF \E n \in DOMAIN table : table[n][1] = key
  THEN [n \in DOMAIN table |->
          IF table[n][1] = key THEN <<key, handler>> ELSE table[n]]
  ELSE Append(table, <<key, handler>>)

\* self.listening once the handler has run: _cmd_stop clears it
AfterHandler(handler, l) == IF handler = "_cmd_stop" THEN FALSE ELSE l

\* the string a handler returns, named after the handler
Returned(handler) == handler \o "()"

\* _handle_command's default response
Fallback(command) == "I heard you say: " \o command \o ". I'm still learning!"

\* the wake-word-only branch of _process_speech: what it says
WakeReply == "Yes? I'm listening."

\* the texts _handle_command passes to speak when only a matched handler's
\* response is spoken
SaidMatchedOnly(handler, command) ==
  IF handler \in {"none", "fallback"} THEN <<>> ELSE <<Returned(handler)>>

\* the texts _handle_command passes to speak, in order; handler "none" stands
\* for an utterance that is not dispatched
Said(handler, command) ==
  IF handler = "none" THEN <<>>
  ELSE IF handler = "fallback" THEN <<Fallback(command)>>
  ELSE <<Returned(handler)>>

\* response = await handler(command): the argument the handler is called
\* with, "" when no handler is called
HandlerArg(handler, command) ==
  IF handler \in {"none", "fallback"} THEN "" ELSE command

\* one utterance or injected text, and what became of it
Heard(text, src, cmd, handler, after) ==
  [text |-> text, src |-> src, cmd |-> cmd, handler |-> handler,
   arg |-> HandlerArg(handler, cmd), said |-> Said(handler, cmd),
   during |-> speaking,
   matchable |-> \E n \in DOMAIN handlers : KeyMatchesAnyCase(handlers[n][1], cmd),
   before |-> Mode(listening), after |-> after]

\* the record of the dispatch the loop is suspended in is completed
Completed(l) ==
  [n \in DOMAIN heard |->
     IF heard[n].src = "loop" /\ heard[n].after = "pending"
     THEN [heard[n] EXCEPT !.after = Mode(l)] ELSE heard[n]]

\* commands the loop dispatched since the session last changed mode
Window(dispatched) ==
  IF listening' # listening THEN 0
  ELSE IF dispatched /\ listening THEN window + 1 ELSE window

InitVoice ==
  /\ listening = FALSE
  /\ speaking = FALSE
  /\ ttsReady \in BOOLEAN
  /\ handlers = DefaultHandlers
  /\ voicePc = "listen"
  /\ closing = FALSE
  /\ heard = <<>>
  /\ window = 0
  /\ buttonEver = FALSE
  /\ sttReady \in BOOLEAN
  /\ loopPc = "running"
  /\ slept = FALSE
  /\ alertPc = "idle"
  /\ observed = "idle"
  /\ AlertsUnused
  /\ HubUnused

\* _handle_command(command) called by _process_speech, up to the await in
\* speak; closes says that the call came from the window branch
LoopCommand(text, command, closes) ==
  LET handler == MatchHandler(handlers, command)
  IN IF ttsReady
     THEN /\ listening' = AfterHandler(handler, listening)
          /\ speaking' = TRUE
          /\ voicePc' = "respond"
          /\ closing' = closes
          /\ heard' = Append(heard, Heard(text, "loop", command, handler, "pending"))
     ELSE /\ listening' = IF closes THEN FALSE ELSE AfterHandler(handler, listening)
          /\ heard' = Append(heard, Heard(text, "loop", command, handler,
                                          Mode(listening')))
          /\ UNCHANGED <<speaking, voicePc, closing>>

\* the wake-word-only branch of _process_speech, up to the await in speak
WakeOnly(text) ==
  /\ listening' = TRUE
  /\ IF ttsReady
     THEN /\ speaking' = TRUE
          /\ voicePc' = "yes"
          /\ heard' = Append(heard, [Heard(text, "loop", "", "none", "pending")
                                       EXCEPT !.said = <<WakeReply>>])
     ELSE /\ heard' = Append(heard, [Heard(text, "loop", "", "none", "active")
                                       EXCEPT !.said = <<WakeReply>>])
          /\ UNCHANGED <<speaking, voicePc>>
  /\ UNCHANGED closing

\* the text in front of the wake word, stripped
WakeCommandBefore(text) == StrStrip(BeforeWake(text))

\* the command _process_speech extracts from a text holding the wake word
WakeCommand(text) == StrStrip(AfterWake(text))

\* the value on_listening_change has last been called with once a branch of
\* _process_speech is through: True after the wake-word-only branch, False
\* after the window branch, no call in the other branches
Notified(branch, obs) ==
  IF branch = "wake" THEN "active"
  ELSE IF branch = "window" THEN "idle"
  ELSE obs

\* every utterance without the wake phrase is taken as a command
WindowOpenAlways == TRUE

\* _process_speech: elif self.listening
WindowOpen == listening

\* listen_continuous gets past its first test and reads the audio stream
\* for every assistant
LoopRecognisesAlways == TRUE

\* listen_continuous gets past "if not self._stt_ready" and reads the audio
\* stream
LoopRecognises == sttReady

\* listen_continuous receives a final result and awaits _process_speech
Hear(raw) ==
  LET text == StrStrip(Lower(raw))
  IN /\ LoopRecognises
     /\ loopPc = "running"
     /\ voicePc = "listen"
     /\ Len(heard) < MaxHeard
     /\ text # ""
     /\ IF IsSubstr(WakeWord, text)
        THEN IF WakeCommand(text) # ""
             THEN LoopCommand(text, WakeCommand(text), FALSE)
             ELSE WakeOnly(text)
        ELSE IF WindowOpen
             THEN LoopCommand(text, text, TRUE)
             ELSE /\ heard' = Append(heard, Heard(text, "loop", "", "none", "idle"))
                  /\ UNCHANGED <<listening, speaking, voicePc, closing>>
     /\ window' = Window(heard'[Len(heard')].handler # "none")
     /\ observed' =
          IF voicePc' # "listen" THEN observed
          ELSE Notified(IF ~IsSubstr(WakeWord, text)
                        THEN (IF WindowOpen THEN "window" ELSE "ignored")
                        ELSE IF WakeCommand(text) # "" THEN "command" ELSE "wake",
                        observed)
     /\ UNCHANGED <<ttsReady, handlers, buttonEver, loopVars, alertVars, hubVars>>

\* the speech process the loop's dispatch awaits has ended: speak's finally,
\* and then the rest of _process_speech
SpeakDone ==
  /\ voicePc \in {"yes", "respond"}
  /\ speaking' = FALSE
  /\ listening' = IF voicePc = "respond" /\ closing THEN FALSE ELSE listening
  /\ voicePc' = "listen"
  /\ closing' = FALSE
  /\ heard' = Completed(listening')
  /\ window' = Window(FALSE)
  /\ observed' = Notified(IF voicePc = "yes" THEN "wake"
                          ELSE IF closing THEN "window" ELSE "command", observed)
  /\ UNCHANGED <<ttsReady, handlers, buttonEver, loopVars, alertVars, hubVars>>

\* _handle_command(text) called directly and awaited to its end, while the
\* loop is between two utterances
Inject(text) ==
  LET handler == MatchHandler(handlers, text)
  IN /\ voicePc = "listen"
     /\ Len(heard) < MaxHeard
     /\ listening' = AfterHandler(handler, listening)
     /\ heard' = Append(heard, Heard(text, "inject", text, handler, "direct"))
     /\ window' = Window(FALSE)
     /\ UNCHANGED <<speaking, ttsReady, handlers, voicePc, closing, buttonEver,
                    loopVars, observed, alertVars, hubVars>>

\* _on_button_press, from the GPIO thread
ButtonPress ==
  /\ listening' = ~listening
  /\ observed' = IF listening THEN observed ELSE "active"
  /\ buttonEver' = TRUE
  /\ window' = Window(FALSE)
  /\ UNCHANGED <<speaking, ttsReady, handlers, voicePc, closing, heard,
                 loopVars, alertVars, hubVars>>

\* register_command(keywords, handler) for one keyword
RegisterCommand(kw, handler) ==
  /\ handlers' = DictSet(handlers, Lower(kw), handler)
  /\ UNCHANGED <<listening, speaking, ttsReady, voicePc, closing, heard, window,
                 buttonEver, loopVars, observed, alertVars, hubVars>>

\* listen_continuous without recogniser: one turn of "await asyncio.sleep(1)"
IdleSleep ==
  /\ ~LoopRecognises
  /\ loopPc = "running"
  /\ slept' = TRUE
  /\ UNCHANGED <<listening, speaking, ttsReady, handlers, voicePc, closing, heard,
                 window, buttonEver, sttReady, loopPc, alertPc, observed, alertVars, hubVars>>

\* listen_continuous: opening or reading the audio stream raises, the except
\* clauses log it and the coroutine returns
AudioFails ==
  /\ LoopRecognises
  /\ loopPc = "running"
  /\ voicePc = "listen"
  /\ loopPc' = "ended"
  /\ UNCHANGED <<listening, speaking, ttsReady, handlers, voicePc, closing, heard,
                 window, buttonEver, sttReady, slept, alertPc, observed, alertVars, hubVars>>

NextVoice ==
  \/ \E raw \in RawResults : Hear(raw)
  \/ SpeakDone
  \/ \E text \in InjectedTexts : Inject(text)
  \/ ButtonPress
  \/ \E kw \in CustomKeywords : RegisterCommand(kw, CustomHandler)
  \/ IdleSleep
  \/ AudioFails

SpecVoice == InitVoice /\ [][NextVoice]_vars

\* utterances that reach the handler a caller registered
CustomResults == {"hey maya my vitals", "my vitals"}

\* listen_continuous receives a final result whose dispatch reaches the
\* registered handler, and the handler raises: the exception leaves
\* _handle_command and _process_speech and is caught by the except clause of
\* listen_continuous, which logs it; the coroutine returns
HearRaising(raw) ==
  LET text == StrStrip(Lower(raw))
      command == IF IsSubstr(WakeWord, text) THEN WakeCommand(text) ELSE text
  IN /\ LoopRecognises
     /\ loopPc = "running"
     /\ voicePc = "listen"
     /\ Len(heard) < MaxHeard
     /\ IsSubstr(WakeWord, text) \/ WindowOpen
     /\ MatchHandler(handlers, command) = CustomHandler
     /\ loopPc' = "ended"
     /\ heard' = Append(heard, [Heard(text, "loop", command, CustomHandler, "raised")
                                  EXCEPT !.said = <<>>])
     /\ UNCHANGED <<listening, speaking, ttsReady, handlers, voicePc, closing,
                    window, buttonEver, sttReady, slept, alertPc, observed,
                    alertVars, hubVars>>

\* an assistant with a registered handler that can raise
NextVoiceRaise ==
  \/ \E raw \in RawResults : Hear(raw)
  \/ SpeakDone
  \/ ButtonPress
  \/ \E kw \in CustomKeywords : RegisterCommand(kw, CustomHandler)
  \/ \E raw \in CustomResults : HearRaising(raw)

SpecVoiceRaise == InitVoice /\ [][NextVoiceRaise]_vars

\* speak(text) called by AlertSystem.trigger through on_alert_voice, up to the
\* await on the speech process; without a speech engine it returns at once
AlertSpeak ==
  /\ alertPc = "idle"
  /\ ttsReady
  /\ speaking' = TRUE
  /\ alertPc' = "speaking"
  /\ UNCHANGED <<listening, ttsReady, handlers, voicePc, closing, heard, window,
                 buttonEver, sttReady, loopPc, slept, observed, alertVars, hubVars>>

\* the speech process of that call has ended: speak's finally
AlertSpeakDone ==
  /\ alertPc = "speaking"
  /\ speaking' = FALSE
  /\ alertPc' = "idle"
  /\ UNCHANGED <<listening, ttsReady, handlers, voicePc, closing, heard, window,
                 buttonEver, sttReady, loopPc, slept, observed, alertVars, hubVars>>

NextVoiceAlert ==
  \/ \E raw \in RawResults : Hear(raw)
  \/ SpeakDone
  \/ ButtonPress
  \/ AlertSpeak
  \/ AlertSpeakDone

SpecVoiceAlert == InitVoice /\ [][NextVoiceAlert]_vars

\* --------------------------------------------------- properties of voice.py
\* the utterance begins with the wake phrase and goes on after it
WakeThenText(r) ==
  /\ r.src = "loop"
  /\ Len(r.text) > Len(WakeWord)
  /\ SubSeq(r.text, 1, Len(WakeWord)) = WakeWord

\* C5: an utterance holding the wake phrase followed by text is dispatched
\* with that text as the command ("hey maya what time is it" runs the time
\* handler), and an Idle session is Idle again once the utterance has been
\* processed (the button left alone).
C5_WakeShortCircuit ==
  \A n \in DOMAIN heard :
    WakeThenText(heard[n]) =>
      /\ heard[n].handler # "none"
      /\ heard[n].cmd =
           StrStrip(SubSeq(heard[n].text, Len(WakeWord) + 1, Len(heard[n].text)))
      /\ heard[n].text = "hey maya what time is it" =>
           heard[n].cmd = "what time is it" /\ heard[n].handler = "_cmd_time"
      /\ (~buttonEver /\ heard[n].before = "idle" /\ heard[n].after # "pending")
           => heard[n].after = "idle"

C5_Witness ==
  /\ ~buttonEver
  /\ \E n \in DOMAIN heard :
       /\ heard[n].text = "hey maya what time is it"
       /\ heard[n].handler = "_cmd_time"
       /\ heard[n].before = "idle"
       /\ heard[n].after = "idle"

\* C6: after an utterance that is exactly the wake phrase the session is in
\* ActiveListening, the next utterance (one that is more than the wake phrase
\* again) is dispatched as a command, and once it has been processed the
\* session is Idle (the button left alone).
C6_WakeThenCommand ==
  ~buttonEver =>
    \A n \in 1..(Len(heard) - 1) :
      (/\ heard[n].src = "loop" /\ heard[n].text = WakeWord
       /\ heard[n + 1].src = "loop" /\ heard[n + 1].text # WakeWord
       /\ heard[n + 1].after # "pending")
      => /\ heard[n].after = "active"
         /\ heard[n + 1].handler # "none"
         /\ heard[n + 1].after = "idle"

\* C7: the loop never dispatches a second command in one stay in
\* ActiveListening, and once a command dispatched in ActiveListening has been
\* processed the session has left ActiveListening.
C7_OneCommandWindow ==
  /\ window <= 1
  /\ voicePc = "listen" => window = 0

\* C8: a command text in which a registered keyword occurs, letter case
\* ignored, is never answered with the default response, whether it came
\* from the loop or was handed to the dispatch directly.
C8_CaseInsensitiveMatch ==
  \A n \in DOMAIN heard :
    (heard[n].handler # "none" /\ heard[n].matchable)
    => heard[n].handler # "fallback"

\* the step appends a record to heard
Appended == Len(heard') = Len(heard) + 1

\* the step is a button press that changes the session mode
ButtonFlip ==
  /\ buttonEver'
  /\ listening' # listening
  /\ heard' = heard
  /\ voicePc' = voicePc

\* C21: a dispatch runs one handler and no other: the handler of the first
\* keyword, in the order of the command table, that occurs in the command
\* text, called with the whole command text; when no keyword occurs in the
\* text no handler runs ("thank you good night" runs the thanks handler and
\* not the good-night handler).
C21_FirstMatch ==
  [][Appended =>
       LET r == heard'[Len(heard')]
           hits == {k \in DOMAIN handlers : IsSubstr(handlers[k][1], r.cmd)}
       IN r.handler # "none" =>
            /\ IF hits = {} THEN r.handler = "fallback" /\ r.arg = ""
               ELSE \E k \in hits :
                      /\ \A m \in hits : k <= m
                      /\ r.handler = handlers[k][2]
                      /\ r.arg = r.cmd
            /\ r.cmd = "thank you good night" => r.handler = "_cmd_thanks"]_vars

C21_Witness ==
  \E n \in DOMAIN heard :
    /\ heard[n].cmd = "thank you good night"
    /\ heard[n].handler = "_cmd_thanks"
    /\ heard[n].arg = "thank you good night"

\* C22: every dispatch passes one text to speak and no more: the string the
\* matched handler returned, or the default response that repeats the
\* command when no keyword matched.
C22_OneResponse ==
  \A n \in DOMAIN heard :
    heard[n].handler # "none" =>
      /\ Len(heard[n].said) = 1
      /\ heard[n].handler = "fallback" =>
           heard[n].said[1] =
             "I heard you say: " \o heard[n].cmd \o ". I'm still learning!"
      /\ heard[n].handler # "fallback" =>
           heard[n].said[1] = heard[n].handler \o "()"

C22_Witness ==
  \E n \in DOMAIN heard :
    /\ heard[n].handler = "fallback"
    /\ heard[n].said = <<"I heard you say: DATE. I'm still learning!">>

\* C23: a button press in Idle puts the session in ActiveListening; an
\* utterance without the wake phrase heard in ActiveListening is dispatched
\* as a command; and no button press takes the session out of
\* ActiveListening.
C23_PushToTalk ==
  /\ [](\A n \in DOMAIN heard :
          (/\ heard[n].src = "loop" /\ heard[n].before = "active"
           /\ ~IsSubstr(WakeWord, heard[n].text))
          => heard[n].handler # "none" /\ heard[n].cmd = heard[n].text)
  /\ [][ButtonFlip => ~listening /\ listening']_vars

\* C24: an utterance holding the wake phrase that is recognised while the
\* speaking flag is set starts no dispatch, gets no reply, and leaves an Idle
\* session Idle.
C24_SpeakingSuppressesWake ==
  \A n \in DOMAIN heard :
    (/\ heard[n].src = "loop" /\ heard[n].during
     /\ IsSubstr(WakeWord, heard[n].text))
    => /\ heard[n].handler = "none"
       /\ heard[n].said = <<>>
       /\ heard[n].before = "idle" => heard[n].after = "idle"

\* C27: the loop of an assistant without recognition engine keeps running:
\* it never returns, it takes no utterance and dispatches nothing, and the
\* session mode changes only by a button press or a dispatch made by another
\* caller.
C27_NoRecogniserNoOp ==
  /\ [](~sttReady =>
          /\ loopPc = "running"
          /\ voicePc = "listen"
          /\ \A n \in DOMAIN heard : heard[n].src # "loop")
  /\ [][(~sttReady /\ listening' # listening) =>
          \/ ButtonFlip
          \/ Appended /\ heard'[Len(heard')].src = "inject"]_vars

C27_Witness ==
  /\ ~sttReady
  /\ slept
  /\ loopPc = "running"
  /\ heard # <<>>

\* the step appends a record to hist
Called == Len(hist') = Len(hist) + 1

\* the step is one turn of check_inactivity
InactChecked == inact.pc = "check" /\ inact'.pc # "check"

\* C25: a turn of check_inactivity calls trigger for a Warning alert
\* "inactivity" exactly when more than the threshold has passed since the
\* last update_motion (since construction when there was none), so after an
\* update_motion there is no call until the threshold has passed again, and
\* while the breach lasts every turn calls trigger.
C25_InactivityOnBreach ==
  [][/\ InactChecked =>
          ((now - lastMotion > threshold) <=>
             /\ Called
             /\ hist'[Len(hist')].type = "inactivity"
             /\ hist'[Len(hist')].sev = "warning"
             /\ hist'[Len(hist')].t = now)
     /\ (Called /\ hist'[Len(hist')].type = "inactivity") =>
          InactChecked /\ now - lastMotion > threshold]_vars

C25_Witness ==
  \E n \in DOMAIN hist :
    /\ hist[n].type = "inactivity"
    /\ hist[n].accepted
    /\ lastMotion > hist[n].t
    /\ inact.at >= lastMotion
    /\ inact.pc = "sleep"
    /\ ~inact.fired

\* C26: once a turn of check_medication_reminders is through, every
\* configured reminder whose times hold the time of day of that turn has
\* been delivered in it (accepted, logged and handed to the visual sink when
\* one is set), two reminders with the same slot included; and a medication
\* alert is only ever raised for a configured reminder at or after one of
\* its slots.
C26_RemindersDelivered ==
  /\ rem.pc = "sleep" =>
       \A i \in DOMAIN Reminders :
         rem.slot \in Reminders[i].times =>
           \E n \in DOMAIN hist :
             /\ hist[n].type = "medication"
             /\ hist[n].msg = <<"Time to take ", Reminders[i].name>>
             /\ hist[n].t >= rem.slot
             /\ hist[n].accepted
             /\ onVisual => hist[n].visual = 1
  /\ \A n \in DOMAIN hist :
       hist[n].type = "medication" =>
         \E i \in DOMAIN Reminders :
           /\ hist[n].msg = <<"Time to take ", Reminders[i].name>>
           /\ \E slot \in Reminders[i].times : slot <= hist[n].t

\* C28: a trigger call made while an accepted call of the same type is less
\* than the cooldown old is suppressed and leaves the log alone, also when
\* that earlier call is still waiting for its sinks; so of the calls of one
\* type in one cooldown window one is accepted and logged.
C28_CheckAndRecordAtomic ==
  [][Called =>
       LET j == Len(hist')
       IN (\E i \in DOMAIN hist :
             /\ hist[i].type = hist'[j].type
             /\ hist[i].accepted
             /\ hist'[j].t - hist[i].t < cooldown)
          => /\ ~hist'[j].accepted
             /\ alertLog' = alertLog
             /\ cooldowns' = cooldowns]_vars

C28_Witness ==
  /\ Len(hist) = 2
  /\ hist[1].accepted
  /\ hist[1].pc \in {"visual", "voice"}
  /\ hist[2].type = hist[1].type
  /\ ~hist[2].accepted

C30_CancelledStops ==
  [][/\ (~hubDown /\ hubDown') =>
          \A n \in SensorNames :
            /\ tasks[n] # "none" => tasks'[n] = "cancelled"
            /\ orphans[n] = "running" => orphans'[n] # "running"
     /\ \A n \in SensorNames :
          tasks[n] = "cancelled" =>
            \/ tasks'[n] = "cancelled"
            \/ phase = "starting" /\ phase' = "started"]_vars

\* the step is a probe of start_all's first loop
StartProbed == phase = "starting" /\ startQueue # <<>> /\ startQueue' = Tail(startQueue)

\* C31: no read of a sensor's read operation starts while another one is in
\* progress: start_all does not probe a sensor through its read operation
\* while a polling task of that sensor is suspended in a read or a probe, or
\* while a task of an earlier start_all is still polling it.
C31_SequentialReads ==
  [][StartProbed =>
       LET n == Head(startQueue)
       IN (sensors[n].read_fn /\ ~ProbesBus(sensors[n]))
          => /\ tasks[n] \notin {"reading", "probing"}
             /\ orphans[n] # "running"]_vars

\* C32: when start_all is called with a sensor registered that has a read
\* operation and is not the wedged one, a polling task is started for it, and
\* that task never stays asleep for good.
C32_WedgeIsolated ==
  /\ (/\ phase = "starting"
      /\ OneSensor \in DOMAIN sensors
      /\ sensors[OneSensor].read_fn) ~> (tasks[OneSensor] # "none")
  /\ (tasks[OneSensor] = "sleep") ~> (tasks[OneSensor] # "sleep")

\* the step is the end of a read by the polling task of n
ReadEnded(n) == tasks[n] = "reading" /\ tasks'[n] \in {"sleep", "notify"}

\* C35: a read that returns sets the error counter to 0, stores the value
\* and starts the publication of the update to the subscribers; a read that
\* fails adds one to the counter, and takes the sensor to Offline only when
\* that makes more than the threshold of failures since the last success.
C35_ConsecutiveFailures ==
  [][\A n \in DOMAIN sensors :
       ReadEnded(n) =>
         \/ /\ sensors'[n].error_count = 0
            /\ sensors'[n].value = "val"
            /\ sensors'[n].status = "connected"
            /\ callbacks > 0 =>
                 /\ tasks'[n] = "notify"
                 /\ delivered'[n].status = "connected"
                 /\ delivered'[n].value = "val"
         \/ /\ sensors'[n].error_count = sensors[n].error_count + 1
            /\ sensors'[n].status = "offline" <=>
                 sensors[n].error_count + 1 > ErrorThreshold]_vars

C35_Witness ==
  /\ callbacks > 0
  /\ OneSensor \in DOMAIN sensors
  /\ sensors[OneSensor].status = "connected"
  /\ sensors[OneSensor].error_count = 0
  /\ delivered[OneSensor].reset = ErrorThreshold
  /\ delivered[OneSensor].seen = 1..callbacks
  /\ tasks[OneSensor] = "sleep"

\* C37: a Connected sensor's error counter is never above the threshold, so
\* a sensor that a re-probe brought back takes the full number of failed
\* reads before it is marked Offline again.
C37_FullBudget ==
  \A n \in DOMAIN sensors :
    sensors[n].status = "connected" => sensors[n].error_count <= ErrorThreshold

\* C33: no trigger call ends with the exception of a sink, an accepted
\* critical call that has ended has reached the voice sink when one is set,
\* whatever the visual sink did, and neither monitor is ended by a sink's
\* exception.
C33_SinkIsolation ==
  /\ \A i \in DOMAIN hist :
       /\ hist[i].pc # "raised"
       /\ (/\ hist[i].accepted /\ hist[i].sev = "critical" /\ onVoice
           /\ hist[i].pc \notin {"visual", "voice"}) => hist[i].voice = 1
  /\ inact.pc # "dead"
  /\ rem.pc # "dead"

\* C34: while the response of a command that closes the window is being
\* spoken the session is still in ActiveListening (the button left alone).
C34_SpeechBeforeIdle ==
  (voicePc = "respond" /\ closing /\ ~buttonEver) => listening

\* C36: an utterance without the wake phrase heard in Idle is not dispatched,
\* runs no handler, is given no reply and leaves the session Idle; and every
\* dispatch comes from an utterance with the wake phrase, from an utterance
\* heard in ActiveListening, or from a direct call.
C36_WakeGate ==
  \A n \in DOMAIN heard :
    /\ (/\ heard[n].src = "loop" /\ heard[n].before = "idle"
        /\ ~IsSubstr(WakeWord, heard[n].text))
       => /\ heard[n].handler = "none"
          /\ heard[n].arg = ""
          /\ heard[n].said = <<>>
          /\ heard[n].after = "idle"
    /\ heard[n].handler # "none" =>
         \/ heard[n].src = "inject"
         \/ IsSubstr(WakeWord, heard[n].text)
         \/ heard[n].before = "active"

C36_Witness ==
  \E n \in DOMAIN heard :
    /\ heard[n].src = "loop"
    /\ heard[n].text = "what is today's date"
    /\ heard[n].before = "idle"
    /\ heard[n].handler = "none"
    /\ heard[n].after = "idle"

\* C38: whenever no utterance is being processed, the value last passed to
\* on_listening_change is the session mode.
C38_ObserverConsistent ==
  voicePc = "listen" => observed = Mode(listening)

\* C39: the speaking flag is set exactly while a speak call is in progress,
\* be it the one of the loop's dispatch or the one made for an alert.
C39_SpeakingTracksPlayback ==
  speaking <=> (voicePc \in {"yes", "respond"} \/ alertPc = "speaking")

\* C40: after a dispatch whose handler raised, the recognition loop is still
\* running, and the session is not left in ActiveListening by it.
C40_HandlerFailureSurvived ==
  \A n \in DOMAIN heard :
    heard[n].after = "raised" =>
      /\ loopPc = "running"
      /\ (n = Len(heard) /\ ~buttonEver) => ~listening

====
